---- MODULE Spec2Model ----
(***************************************************************************)
(* A model of the Arogya AI backend: the retrieval-augmented chat pipeline *)
(* (ai_core/rag_engine.py), the chat endpoints (main.py), the report       *)
(* creation route (routes/report_routes.py), the connection routes         *)
(* (routes/connection_routes.py), the doctor's view of a patient's reports *)
(* (routes/doctor_routes.py) and the appointment routes                    *)
(* (routes/appointment_routes.py).                                         *)
(*                                                                         *)
(* Python strings are sequences of one-character strings; a string literal *)
(* of the source that is never taken apart is one element of the sequence. *)
(*                                                                         *)
(* Spec         reports are created and indexed and users chat, while the  *)
(*              vector store, the LLM and the chat collection answer       *)
(* SpecReports  reports of every kind of body created and indexed, with    *)
(*              inserts and upserts that may raise                         *)
(* SpecChat     POST /chat with external calls that may raise, over an     *)
(*              empty store or one indexed report                          *)
(* SpecHistory  POST /chat and GET /chat/history with time passing and the *)
(*              server restarting                                          *)
(* SpecIndex    index_report and the two retrieval functions called        *)
(*              directly, a report id indexed more than once               *)
(* SpecChunk    the chunking of index_report alone                         *)
(* SpecHistoryFull  the chat endpoints over a chat collection that already *)
(*              holds as many messages of a user as the history returns    *)
(* SpecMany     the two retrieval functions over stores that hold more     *)
(*              chunks of an owner than a query asks for                   *)
(* SpecConn     connection requests created and accepted, create calls     *)
(*              overlapping                                                *)
(* SpecDoctor   doctors accepting requests and reading the reports of      *)
(*              patients, while reports are created                        *)
(* SpecAppt     appointments scheduled by patients, updated by doctors and *)
(*              listed by every kind of user                               *)
(***************************************************************************)
EXTENDS Integers, Sequences, FiniteSets, TLC

VARIABLES
    reports,        \* db.reports: the documents in insertion order
    tasks,          \* BackgroundTasks: index_report calls scheduled, not yet run
    vstore,         \* the Chroma collection "medical_reports": id -> [document, metadata]
    chat_messages,  \* db.chat_messages: the documents in insertion order
    clock,          \* the wall clock, datetime.now(timezone.utc)
    boot_time,      \* the wall clock when models/schemas.py was imported
    calls,          \* the index_report calls made apart from create_report, oldest first
    connection_requests,  \* db.connection_requests: the documents in insertion order
    creating,       \* create_connection_request calls between find_one and insert_one
    appointments,   \* db.appointments: the documents in insertion order
    chatting,       \* chat_with_rag calls waiting for their insert_one
    saving,         \* create_report calls between insert_one and add_task
    reading,        \* get_patient_reports calls between their two reads
    last            \* what the last call did and answered

\* the state of the connection routes
conn == <<connection_requests, creating>>

\* the calls that wait for the database
flight == <<chatting, saving, reading>>

vars ==
    <<reports, tasks, vstore, chat_messages, clock, boot_time, calls, conn, appointments,
      flight, last>>

-----------------------------------------------------------------------------
(* Bounds of the model. *)

MaxTextLen == 1200  \* longest text given to the chunker alone
ShortLen == 4     \* length of a report description of one chunk
LongLen == 600      \* length of a report description of two chunks
MaxReports == 2     \* reports created in one behaviour
MaxMsgs == 1        \* chat messages stored in one behaviour of the whole application
MaxTurns == 2       \* chat messages stored in one behaviour of the chat endpoints alone
MaxClock == 2       \* last tick of the wall clock
MaxCalls == 2       \* direct index_report calls in one behaviour
MaxInFlight == 1    \* calls of one handler waiting for the database at once

-----------------------------------------------------------------------------
(* Strings. *)

Lower == <<"a", "b", "c", "d", "e", "f", "g">>
Upper == <<"T", "U", "V", "W", "X">>

\* A text of n characters over the given letters.
MkText(n, letters) == [i \in 1..n |-> letters[(i % Len(letters)) + 1]]

Min(a, b) == IF a < b THEN a ELSE b

\* s[a:b] for 0 <= a <= b
Slice(s, a, b) == SubSeq(s, a + 1, Min(b, Len(s)))

\* range(start, stop, step) for step > 0
RECURSIVE Range(_, _, _)
Range(start, stop, step) ==
    IF start >= stop THEN <<>> ELSE <<start>> \o Range(start + step, stop, step)

DigitChar == <<"0", "1", "2", "3", "4", "5", "6", "7", "8", "9">>

\* str(i) for an int i >= 0, as an f-string formats it
RECURSIVE IntStr(_)
IntStr(i) ==
    IF i < 10 THEN <<DigitChar[i + 1]>>
    ELSE IntStr(i \div 10) \o <<DigitChar[(i % 10) + 1]>>

\* sep.join(parts)
RECURSIVE Join(_, _)
Join(sep, parts) ==
    IF parts = <<>> THEN <<>>
    ELSE IF Len(parts) = 1 THEN parts[1]
    ELSE parts[1] \o sep \o Join(sep, Tail(parts))

\* the concatenation of a sequence of strings
RECURSIVE Concat(_)
Concat(parts) == IF parts = <<>> THEN <<>> ELSE parts[1] \o Concat(Tail(parts))

-----------------------------------------------------------------------------
(* ai_core/rag_engine.py: index_report *)

chunk_size == 500

\* A chunker that drops the short last chunk.
ChunksDropTail(text) ==
    LET starts == Range(0, Len(text) - chunk_size + 1, chunk_size)
    IN  [j \in 1..Len(starts) |-> Slice(text, starts[j], starts[j] + chunk_size)]

\* chunks = [text_content[i:i+chunk_size] for i in range(0, len(text_content), chunk_size)]
Chunks(text) ==
    LET starts == Range(0, Len(text), chunk_size)
    IN  [j \in 1..Len(starts) |-> Slice(text, starts[j], starts[j] + chunk_size)]

\* A value of type "str | None": None is [some |-> FALSE, val |-> <<>>].
None == [some |-> FALSE, val |-> <<>>]
Some(s) == [some |-> TRUE, val |-> s]

\* bool(x) for x of type "str | None"
Truthy(x) == x.some /\ x.val # <<>>

\* A chunk id without the index.
ChunkIdFlat(report_id, i) == report_id \o <<"_chunk_">>

\* f"{report_id}_chunk_{i}"
ChunkId(report_id, i) == report_id \o <<"_chunk_">> \o IntStr(i)

\* An upsert that keeps the entry an id already has.
UpsertKeepOld(store, ids, documents, metadatas) ==
    LET new == {ids[j] : j \in 1..Len(ids)}
        at(id) == CHOOSE j \in 1..Len(ids) : ids[j] = id
    IN  [id \in (DOMAIN store) \cup new |->
            IF id \in DOMAIN store THEN store[id]
            ELSE [document |-> documents[at(id)], metadata |-> metadatas[at(id)]]]

\* An upsert that leaves only the batch in the collection.
UpsertOnlyBatch(store, ids, documents, metadatas) ==
    LET new == {ids[j] : j \in 1..Len(ids)}
        at(id) == CHOOSE j \in 1..Len(ids) :
                      ids[j] = id /\ \A k \in (j + 1)..Len(ids) : ids[k] # id
    IN  [id \in new |-> [document |-> documents[at(id)], metadata |-> metadatas[at(id)]]]

\* collection.upsert(documents, ids, metadatas): every id of the batch is set,
\* every other id keeps what it has
Upsert(store, ids, documents, metadatas) ==
    LET new == {ids[j] : j \in 1..Len(ids)}
        \* the last entry of the batch with this id
        at(id) == CHOOSE j \in 1..Len(ids) :
                      ids[j] = id /\ \A k \in (j + 1)..Len(ids) : ids[k] # id
    IN  [id \in (DOMAIN store) \cup new |->
            IF id \in new
            THEN [document |-> documents[at(id)], metadata |-> metadatas[at(id)]]
            ELSE store[id]]

\* An index_report that returns early only when the text is absent.
IndexBatchEmptyText(report_id, text_content, metadata) ==
    IF ~text_content.some
    THEN [upserts |-> 0, ids |-> <<>>, documents |-> <<>>, metadatas |-> <<>>]
    ELSE LET chunks == Chunks(text_content.val)
         IN  [upserts |-> 1,
              ids |-> [j \in 1..Len(chunks) |-> ChunkId(report_id, j - 1)],
              documents |-> chunks,
              metadatas |-> [j \in 1..Len(chunks) |-> metadata]]

\* The batch index_report hands to collection.upsert, <<>> fields when it
\* returns before the upsert.
IndexBatch(report_id, text_content, metadata) ==
    IF ~Truthy(text_content)
    THEN [upserts |-> 0, ids |-> <<>>, documents |-> <<>>, metadatas |-> <<>>]
    ELSE LET chunks == Chunks(text_content.val)
         IN  [upserts |-> 1,
              ids |-> [j \in 1..Len(chunks) |-> ChunkId(report_id, j - 1)],
              documents |-> chunks,
              metadatas |-> [j \in 1..Len(chunks) |-> metadata]]

\* index_report(report_id, text_content, metadata): the collection afterwards
index_report(store, report_id, text_content, metadata) ==
    LET b == IndexBatch(report_id, text_content, metadata)
    IN  IF b.upserts = 0 THEN store
        ELSE Upsert(store, b.ids, b.documents, b.metadatas)

-----------------------------------------------------------------------------
(* ai_core/rag_engine.py: retrieval and generation *)

\* the ids of the chunks whose metadata satisfy where={"owner_email": user_email}
Matching(store, user_email) ==
    {id \in DOMAIN store : store[id].metadata.owner_email = user_email}

\* the sequences over S without repetition, of length n
RECURSIVE Arrangements(_, _)
Arrangements(S, n) ==
    IF n = 0 THEN {<<>>}
    ELSE UNION {{<<x>> \o r : r \in Arrangements(S \ {x}, n - 1)} : x \in S}

\* A query that ignores its where filter.
QueryUnfiltered(store, n_results, user_email) ==
    Arrangements(DOMAIN store, Min(n_results, Cardinality(DOMAIN store)))

\* collection.query(query_texts=[q], n_results=n, where={"owner_email": e}):
\* the rankings the vector engine may answer with, best match first. The
\* similarity of a text to the query is the engine's own, so every order of
\* the matching chunks is possible; the ids stand for results['ids'][0].
Query(store, n_results, user_email) ==
    LET m == Matching(store, user_email)
    IN  Arrangements(m, Min(n_results, Cardinality(m)))

\* results['documents'][0] of a ranking
Documents(store, hits) == [i \in 1..Len(hits) |-> store[hits[i]].document]

MODEL_NAME == <<"gemini-2.5-pro">>

\* response.text of a generate_content call that succeeds
LLMText == <<"<generated text>">>

RagGeneralInstruction ==
    <<"You are ArogyaAI, a helpful, GENERAL medical assistant. The user has no relevant medical records. Answer the user's query based on general public knowledge. Always add a strong medical disclaimer.">>
RagSpecialInstruction ==
    <<"You are ArogyaAI, a specialized medical AI assistant. ANALYZE the retrieved patient reports and history to answer the user's question. FOCUS on extracting key findings, diagnoses, and medical actions. If the query relates to symptoms or treatment, suggest only *GENERAL* (non-prescription, non-specific dosage) recommendations and common OTC medicines related to the reported conditions. Keep answers concise, actionable, and informative. Always conclude with a mandatory medical disclaimer.">>
NoRecordsBlock == <<"No specific medical records found.">>
RagFallback ==
    <<"I'm sorry, I encountered an error analyzing your records. Please ensure your GEMINI_API_KEY is correct and try again.">>
SummaryInstruction ==
    <<"You are ArogyaAI, the patient's personal medical record summarization assistant. Analyze the following medical record excerpts and provide a concise, professional summary of the patient's current health status. Structure your response into 3 sections:\n\n1. **Key Diagnoses/Findings:** List the most important health concerns or lab results.\n2. **Recent Actions:** Note any recent prescriptions, treatments, or recommendations.\n3. **General Status:** Provide a single concluding sentence on the overall health state.\n\n--- MEDICAL RECORDS CONTEXT ---\n">>
SummaryQuery == <<"general health history diagnosis treatment lab results">>
NoReportsYet ==
    <<"You haven't uploaded any medical reports yet. Please upload a few reports before requesting a summary.">>
SummaryFallback ==
    <<"I am unable to generate the comprehensive summary at this time due to a processing error.">>

\* retrieved_context of both functions
RetrievedContext(docs) == IF docs # <<>> THEN Join(<<"\n\n">>, docs) ELSE <<>>

\* A prompt that takes the context branch whatever was retrieved.
RagPromptAlwaysContext(query, retrieved_context) ==
    RagSpecialInstruction \o <<"\n\n">>
    \o <<"--- RETRIEVED PATIENT MEDICAL CONTEXT ---\n">> \o retrieved_context
    \o <<"\n---------------------------------">>
    \o <<"\n\nUser Question: ">> \o query

\* full_prompt of get_rag_response
RagPrompt(query, retrieved_context) ==
    LET system_instruction ==
            IF retrieved_context = <<>> THEN RagGeneralInstruction
            ELSE RagSpecialInstruction
        context_block ==
            IF retrieved_context = <<>> THEN NoRecordsBlock
            ELSE <<"--- RETRIEVED PATIENT MEDICAL CONTEXT ---\n">> \o retrieved_context
                 \o <<"\n---------------------------------">>
    IN  system_instruction \o <<"\n\n">> \o context_block
        \o <<"\n\nUser Question: ">> \o query

\* prompt of get_summary_response
SummaryPrompt(retrieved_context) ==
    SummaryInstruction \o retrieved_context \o <<"\n---------------------------------">>

\* What a call of one of the two functions did: the text it returned or
\* whether it raised, the vector-store queries and generate calls it made,
\* the ranking it got (results['ids'][0]) with its texts
\* (results['documents'][0]), and the prompt it sent.
Outcome(raised, text, queries, gens, hits, docs, prompt) ==
    [raised |-> raised, text |-> text, queries |-> queries, gens |-> gens,
     hits |-> hits, docs |-> docs, prompt |-> prompt]

\* The try block of get_rag_response. query_fails and generate_fails say
\* which external call raises; hits is the ranking the query answers.
RagTry(store, query, user_email, hits, query_fails, generate_fails) ==
    IF query_fails THEN Outcome(TRUE, <<>>, 1, 0, <<>>, <<>>, <<>>)
    ELSE LET docs == Documents(store, hits)
             prompt == RagPrompt(query, RetrievedContext(docs))
         IN  IF generate_fails THEN Outcome(TRUE, <<>>, 1, 1, hits, docs, prompt)
             ELSE Outcome(FALSE, LLMText, 1, 1, hits, docs, prompt)

\* get_rag_response without its except clause.
RagUncaught(store, query, user_email, hits, query_fails, generate_fails) ==
    RagTry(store, query, user_email, hits, query_fails, generate_fails)

\* get_rag_response(query, user_email)
get_rag_response(store, query, user_email, hits, query_fails, generate_fails) ==
    LET t == RagTry(store, query, user_email, hits, query_fails, generate_fails)
    IN  IF t.raised THEN [t EXCEPT !.raised = FALSE, !.text = RagFallback] ELSE t

\* The try block of get_summary_response.
SummaryTry(store, user_email, hits, query_fails, generate_fails) ==
    IF query_fails THEN Outcome(TRUE, <<>>, 1, 0, <<>>, <<>>, <<>>)
    ELSE LET docs == Documents(store, hits)
             retrieved_context == RetrievedContext(docs)
             prompt == SummaryPrompt(retrieved_context)
         IN  IF retrieved_context = <<>>
             THEN Outcome(FALSE, NoReportsYet, 1, 0, hits, docs, <<>>)
             ELSE IF generate_fails THEN Outcome(TRUE, <<>>, 1, 1, hits, docs, prompt)
             ELSE Outcome(FALSE, LLMText, 1, 1, hits, docs, prompt)

\* A summary that is generated even from an empty context.
SummaryAlwaysGenerates(store, user_email, hits, query_fails, generate_fails) ==
    IF query_fails THEN Outcome(FALSE, SummaryFallback, 1, 0, <<>>, <<>>, <<>>)
    ELSE LET docs == Documents(store, hits)
             prompt == SummaryPrompt(RetrievedContext(docs))
         IN  IF generate_fails
             THEN Outcome(FALSE, SummaryFallback, 1, 1, hits, docs, prompt)
             ELSE Outcome(FALSE, LLMText, 1, 1, hits, docs, prompt)

\* get_summary_response(user_email)
get_summary_response(store, user_email, hits, query_fails, generate_fails) ==
    LET t == SummaryTry(store, user_email, hits, query_fails, generate_fails)
    IN  IF t.raised THEN [t EXCEPT !.raised = FALSE, !.text = SummaryFallback] ELSE t

-----------------------------------------------------------------------------
(* main.py: the chat endpoints *)

SummaryLabel == <<"Request for Medical Record Summary">>

HTMLResponse(content) == [type |-> "HTMLResponse", content |-> content]

OnlyPatientsHtml ==
    HTMLResponse(<<"<div class=\"text-xs text-red-500 p-2 text-center\">Only patients can use summary features.</div>">>)
ErrorHtml ==
    HTMLResponse(<<"<div class=\"text-xs text-red-500 p-2 text-center bg-red-50 rounded-lg\">Error processing request. Please try again.</div>">>)
ExchangeHtml(query_to_save, ai_response_text) ==
    HTMLResponse(<<"\n        <div class=\"flex flex-col space-y-2 mb-4 animate-message-entry\">\n            <div class=\"self-end bg-indigo-100 text-indigo-900 p-3 rounded-2xl rounded-tr-none max-w-[85%] text-sm shadow-sm border border-indigo-200\">\n                ">>
                 \o query_to_save
                 \o <<"\n            </div>\n            <div class=\"self-start bg-white border border-gray-200 text-gray-800 p-3 rounded-2xl rounded-tl-none max-w-[90%] text-sm shadow-md\">\n                <strong class=\"text-indigo-600 block text-xs mb-1 font-bold\">Aarogya AI</strong>\n                <div class=\"prose prose-sm text-gray-700 leading-relaxed\">">>
                 \o ai_response_text
                 \o <<"</div>\n            </div>\n        </div>\n        ">>)

\* ChatMessage(owner_email, user_query, ai_response): timestamp is the
\* default of the field, the value of datetime.now() when the class body
\* ran, that is when the module was imported
ChatMessage(owner_email, user_query, ai_response, import_time) ==
    [owner_email |-> owner_email, user_query |-> user_query,
     ai_response |-> ai_response, timestamp |-> import_time]

\* Every role may ask for a summary.
SummaryAllowedAll(current_user) == TRUE

\* the guard of the summarize branch: current_user.user_type != 'patient' is
\* answered with the rejection
SummaryAllowed(current_user) == current_user.user_type = "patient"

\* The retrieval phrase is saved as the question of a summary.
QueryToSavePhrase(action, query) ==
    IF action = "summarize" THEN SummaryQuery ELSE query

\* query_to_save when the ChatMessage is built
QueryToSave(action, query) ==
    IF action = "summarize" THEN SummaryLabel ELSE query

\* no call of get_rag_response or get_summary_response was made
NoCall == Outcome(FALSE, <<>>, 0, 0, <<>>, <<>>, <<>>)

\* What chat_with_rag did: whether an exception left it, the response it
\* returned, the call it made, and the messages it inserted.
ChatResult(raised, response, call, inserted) ==
    [raised |-> raised, response |-> response, call |-> call, inserted |-> inserted]

\* The try block of chat_with_rag. hits is the ranking a vector-store query
\* of this request answers; the three flags say which external call raises.
ChatTry(store, import_time, current_user, query, action, hits, query_fails, generate_fails, insert_fails) ==
    IF action = "summarize" /\ ~SummaryAllowed(current_user)
    THEN ChatResult(FALSE, OnlyPatientsHtml, NoCall, <<>>)
    ELSE LET call ==
                 IF action = "summarize"
                 THEN get_summary_response(store, current_user.email, hits,
                                           query_fails, generate_fails)
                 ELSE IF action = "ask"
                 THEN get_rag_response(store, query, current_user.email, hits,
                                       query_fails, generate_fails)
                 ELSE NoCall
             query_to_save == QueryToSave(action, query)
             chat_message == ChatMessage(current_user.email, query_to_save,
                                         call.text, import_time)
         IN  IF call.raised THEN ChatResult(TRUE, ErrorHtml, call, <<>>)
             ELSE IF insert_fails THEN ChatResult(TRUE, ErrorHtml, call, <<>>)
             ELSE ChatResult(FALSE, ExchangeHtml(query_to_save, call.text), call,
                             <<chat_message>>)

\* chat_with_rag without its except clause.
ChatUncaught(store, import_time, current_user, query, action, hits, query_fails, generate_fails, insert_fails) ==
    ChatTry(store, import_time, current_user, query, action, hits,
            query_fails, generate_fails, insert_fails)

\* chat_with_rag(request, query, action, current_user)
chat_with_rag(store, import_time, current_user, query, action, hits, query_fails, generate_fails, insert_fails) ==
    LET t == ChatTry(store, import_time, current_user, query, action, hits,
                     query_fails, generate_fails, insert_fails)
    IN  IF t.raised THEN [t EXCEPT !.raised = FALSE, !.response = ErrorHtml] ELSE t

\* n_results of the two retrievals
RagK == 3
SummaryK == 10

\* the rankings the vector-store query of a chat request may answer: none
\* when no query is made or the query raises
ChatHits(store, current_user, action, query_fails) ==
    IF query_fails \/ (action = "summarize" /\ ~SummaryAllowed(current_user))
    THEN {<<>>}
    ELSE IF action = "ask" THEN Query(store, RagK, current_user.email)
    ELSE IF action = "summarize" THEN Query(store, SummaryK, current_user.email)
    ELSE {<<>>}

-----------------------------------------------------------------------------
(* The users and the requests of the model. *)

Users == {[email |-> "a@x.com", user_type |-> "patient"],
          [email |-> "d@x.com", user_type |-> "doctor"]}

Queries == {<<"h", "i">>}
ChatActions == {"ask", "summarize", "clear"}

ShortText == MkText(ShortLen, Upper)
LongText == MkText(LongLen, Lower)

\* the descriptions of the reports created in the model: absent, empty, and a
\* text of one chunk
Descriptions == {None, Some(<<>>), Some(ShortText)}

\* the JSON bodies a user sends to POST /reports: a description, and an
\* owner_email key if the set is not empty, which then names another user
Bodies(current_user) ==
    {[description |-> d, owner_email |-> o] :
        d \in Descriptions, o \in {{}} \cup {{u.email} : u \in Users \ {current_user}}}

\* str(result.inserted_id) of the n-th document inserted into a collection
ObjectIdStr(n) == <<"id">> \o IntStr(n)

\* datetime.isoformat()
IsoFormat(t) == <<"T">> \o IntStr(t)

-----------------------------------------------------------------------------
(* The operations. *)

\* the i-th element taken out of a sequence
RemoveAt(s, i) == [j \in 1..(Len(s) - 1) |-> IF j < i THEN s[j] ELSE s[j + 1]]

\* POST /chat up to `await chat_messages_collection.insert_one`: the vector
\* store is queried and the text generated without a return to the event
\* loop. The call ends here when it returns or raises before the await, and
\* waits for the insert otherwise; result holds what the handler goes on to
\* do when the insert answers (FALSE) and when it raises (TRUE).
ChatCall(current_user, query, action, query_fails, generate_fails) ==
    /\ \E hits \in ChatHits(vstore, current_user, action, query_fails) :
          LET result == [insert_fails \in BOOLEAN |->
                            chat_with_rag(vstore, boot_time, current_user, query, action,
                                          hits, query_fails, generate_fails, insert_fails)]
              r == result[FALSE]
          IN  IF r.inserted = <<>>
              THEN /\ last' = [op |-> "chat", user |-> current_user, query |-> query,
                               action |-> action, query_fails |-> query_fails,
                               generate_fails |-> generate_fails,
                               insert_fails |-> FALSE, raised |-> r.raised,
                               response |-> r.response, call |-> r.call,
                               inserted |-> <<>>]
                   /\ UNCHANGED chatting
              ELSE /\ Len(chatting) < MaxInFlight
                   /\ chatting' = Append(chatting,
                          [user |-> current_user, query |-> query, action |-> action,
                           query_fails |-> query_fails,
                           generate_fails |-> generate_fails, result |-> result])
                   /\ last' = [op |-> "chat_call", user |-> current_user,
                               query |-> query, action |-> action,
                               query_fails |-> query_fails,
                               generate_fails |-> generate_fails, call |-> r.call]
    /\ UNCHANGED <<reports, tasks, vstore, chat_messages, clock, boot_time, calls, conn,
                   appointments, saving, reading>>

\* POST /chat from the answer of insert_one on, for the i-th waiting call:
\* the message is stored and the exchange rendered, or the insert raised
ChatInsert(i, insert_fails) ==
    /\ i \in 1..Len(chatting)
    /\ LET c == chatting[i]
           r == c.result[insert_fails]
           \* insert_one gives each document its _id
           docs == [j \in 1..Len(r.inserted) |->
                       [_id |-> ObjectIdStr(Len(chat_messages) + j)] @@ r.inserted[j]]
       IN  /\ chat_messages' = chat_messages \o docs
           /\ last' = [op |-> "chat", user |-> c.user, query |-> c.query,
                       action |-> c.action, query_fails |-> c.query_fails,
                       generate_fails |-> c.generate_fails,
                       insert_fails |-> insert_fails, raised |-> r.raised,
                       response |-> r.response, call |-> r.call,
                       inserted |-> docs]
    /\ chatting' = RemoveAt(chatting, i)
    /\ UNCHANGED <<reports, tasks, vstore, clock, boot_time, calls, conn, appointments,
                   saving, reading>>

\* report_dict of create_report once the insert has answered: the n-th
\* document of db.reports
ReportDict(current_user, description, now, n) ==
    [title |-> "CBC", description |-> description, report_type |-> "Blood Test",
     owner_email |-> current_user.email, upload_date |-> now, id |-> ObjectIdStr(n)]

\* A metadata map that leaves the owner out.
ReportMetadataNoOwner(report_dict) ==
    [report_id |-> report_dict.id, owner_email |-> "",
     title |-> report_dict.title, report_type |-> report_dict.report_type,
     upload_date |-> IsoFormat(report_dict.upload_date)]

\* metadata of create_report
ReportMetadata(report_dict) ==
    [report_id |-> report_dict.id, owner_email |-> report_dict.owner_email,
     title |-> report_dict.title, report_type |-> report_dict.report_type,
     upload_date |-> IsoFormat(report_dict.upload_date)]

\* A create_report that schedules the indexing whatever the description.
ScheduledAlways(report_dict) ==
    {[report_id |-> report_dict.id, text_content |-> report_dict.description,
      metadata |-> ReportMetadata(report_dict)]}

\* the calls create_report hands to background_tasks.add_task
Scheduled(report_dict) ==
    IF Truthy(report_dict.description)
    THEN {[report_id |-> report_dict.id, text_content |-> report_dict.description,
           metadata |-> ReportMetadata(report_dict)]}
    ELSE {}

\* report_data: the request body as ReportCreate validates it. The fields are
\* title, description and report_type; a key of the body that is no field is
\* dropped.
ReportCreate(body) ==
    [title |-> "CBC", description |-> body.description, report_type |-> "Blood Test"]

\* What create_report did and answers: 500 when the insert raised, 201 with
\* Report(**report_dict) otherwise.
ReportAnswer(current_user, body, report_data, insert_fails, scheduled) ==
    [op |-> "create_report", user |-> current_user, body |-> body,
     description |-> report_data.description, insert_fails |-> insert_fails,
     status_code |-> IF insert_fails THEN 500 ELSE 201, scheduled |-> scheduled]

\* POST /reports up to the answer of `await reports_collection.insert_one`:
\* upload_date is read from the clock and the document stored, or the insert
\* raises and the call is answered 500
CreateReportInsert(current_user, body, insert_fails) ==
    /\ LET report_data == ReportCreate(body)
           report_dict == ReportDict(current_user, report_data.description, clock,
                                     Len(reports) + 1)
       IN  IF insert_fails
           THEN /\ last' = ReportAnswer(current_user, body, report_data, TRUE, {})
                /\ UNCHANGED <<reports, saving>>
           ELSE /\ Len(saving) < MaxInFlight
                /\ reports' = Append(reports, report_dict)
                /\ saving' = Append(saving, [user |-> current_user, body |-> body,
                                             report_data |-> report_data,
                                             report_dict |-> report_dict])
                /\ last' = [op |-> "create_report_insert", user |-> current_user,
                            body |-> body, report |-> report_dict]
    /\ UNCHANGED <<tasks, vstore, chat_messages, clock, boot_time, calls, conn,
                   appointments, chatting, reading>>

\* POST /reports once the insert has answered, for the i-th waiting call: the
\* indexing is handed to background_tasks.add_task and the report returned
CreateReportSchedule(i) ==
    /\ i \in 1..Len(saving)
    /\ LET c == saving[i]
       IN  /\ tasks' = tasks \cup Scheduled(c.report_dict)
           /\ last' = [report |-> c.report_dict]
                       @@ ReportAnswer(c.user, c.body, c.report_data, FALSE,
                                       Scheduled(c.report_dict))
    /\ saving' = RemoveAt(saving, i)
    /\ UNCHANGED <<reports, vstore, chat_messages, clock, boot_time, calls, conn,
                   appointments, chatting, reading>>

\* a background task runs: index_report(report_id, description, metadata)
RunIndexTask(t, upsert_fails) ==
    /\ t \in tasks
    /\ tasks' = tasks \ {t}
    /\ vstore' = IF upsert_fails THEN vstore
                 ELSE index_report(vstore, t.report_id, t.text_content, t.metadata)
    /\ last' = [op |-> "index", report_id |-> t.report_id,
                batch |-> IndexBatch(t.report_id, t.text_content, t.metadata),
                raised |-> upsert_fails]
    /\ UNCHANGED <<reports, chat_messages, clock, boot_time, calls, conn, appointments,
                   flight>>

Quiet ==
    /\ reports = <<>>
    /\ tasks = {}
    /\ vstore = <<>>
    /\ chat_messages = <<>>
    /\ clock = 0
    /\ boot_time = 0
    /\ calls = <<>>
    /\ connection_requests = <<>>
    /\ creating = <<>>
    /\ appointments = <<>>
    /\ chatting = <<>>
    /\ saving = <<>>
    /\ reading = <<>>

Init == Quiet /\ last = [op |-> "none"]

\* the bodies of POST /reports with a text to index
TextBodies == {[description |-> Some(ShortText), owner_email |-> {}]}

\* The application while the vector store, the LLM and the collections
\* answer: reports with a text are created and indexed, users chat.
Next ==
    \/ /\ Len(chat_messages) + Len(chatting) < MaxMsgs
       /\ \E u \in Users, q \in Queries, a \in ChatActions :
             ChatCall(u, q, a, FALSE, FALSE)
    \/ \E i \in 1..Len(chatting) : ChatInsert(i, FALSE)
    \/ /\ Len(reports) < MaxReports
       /\ \E u \in Users, b \in TextBodies : CreateReportInsert(u, b, FALSE)
    \/ \E i \in 1..Len(saving) : CreateReportSchedule(i)
    \/ \E t \in tasks : RunIndexTask(t, FALSE)

Spec == Init /\ [][Next]_vars

\* Reports of every kind of body are created and indexed; the insert of a
\* report and the upsert of its chunks may raise.
NextReports ==
    \/ /\ Len(reports) < MaxReports
       /\ \E u \in Users, sf \in BOOLEAN : \E b \in Bodies(u) :
             CreateReportInsert(u, b, sf)
    \/ \E i \in 1..Len(saving) : CreateReportSchedule(i)
    \/ \E t \in tasks, uf \in BOOLEAN : RunIndexTask(t, uf)

SpecReports == Init /\ [][NextReports]_vars

\* The state once owner has created a report with the long description and
\* its indexing task has run.
Seeded(owner) ==
    LET report_dict == ReportDict(owner, Some(LongText), 0, 1)
    IN  /\ reports = <<report_dict>>
        /\ tasks = {}
        /\ vstore = index_report(<<>>, report_dict.id, report_dict.description,
                                 ReportMetadata(report_dict))
        /\ chat_messages = <<>>
        /\ clock = 0
        /\ boot_time = 0
        /\ calls = <<>>
        /\ connection_requests = <<>>
        /\ creating = <<>>
        /\ appointments = <<>>
        /\ chatting = <<>>
        /\ saving = <<>>
        /\ reading = <<>>

\* The chat endpoint with external calls that may raise, over a vector store
\* that is empty or holds one indexed report.
InitChat == (Quiet \/ \E owner \in Users : Seeded(owner)) /\ last = [op |-> "none"]

NextChat ==
    \/ /\ Len(chat_messages) + Len(chatting) < MaxTurns
       /\ \E u \in Users, q \in Queries, a \in ChatActions, qf, gf \in BOOLEAN :
             ChatCall(u, q, a, qf, gf)
    \/ \E i \in 1..Len(chatting), sf \in BOOLEAN : ChatInsert(i, sf)

SpecChat == InitChat /\ [][NextChat]_vars

-----------------------------------------------------------------------------
(* main.py: GET /chat/history, and the clock. *)

\* length of to_list in get_chat_history
HistoryLimit == 50

\* the arrangements of the documents S that are non-decreasing in timestamp:
\* any document of least timestamp comes first
RECURSIVE SortedBy(_)
SortedBy(S) ==
    IF S = {} THEN {<<>>}
    ELSE UNION {{<<x>> \o r : r \in SortedBy(S \ {x})} :
                   x \in {y \in S : \A z \in S : y.timestamp <= z.timestamp}}

\* find({"owner_email": e}).sort("timestamp", 1): the orders the cursor may
\* yield the matching documents in. Documents of equal timestamp come in any
\* order: the sort has no second key.
FindSorted(collection, owner_email) ==
    LET m == {collection[i] : i \in {j \in 1..Len(collection) :
                                        collection[j].owner_email = owner_email}}
    IN  SortedBy(m)

\* A to_list that ignores its length.
ToListAll(cursor, n) == cursor

\* cursor.to_list(length=n)
ToList(cursor, n) == SubSeq(cursor, 1, Min(n, Len(cursor)))

NoHistoryHtml ==
    HTMLResponse(<<"<div class=\"flex flex-col items-center justify-center h-40 text-gray-400 text-xs italic space-y-2\"><svg class=\"w-8 h-8 opacity-50\" fill=\"none\" stroke=\"currentColor\" viewBox=\"0 0 24 24\"><path stroke-linecap=\"round\" stroke-linejoin=\"round\" stroke-width=\"2\" d=\"M8 12h.01M12 12h.01M16 12h.01M21 12c0 4.418-4.03 8-9 8a9.863 9.863 0 01-4.255-.949L3 20l1.395-3.72C3.512 15.042 3 13.574 3 12c0-4.418 4.03-8 9-8s9 3.582 9 8z\"></path></svg><span>No history yet. Ask me anything!</span></div>">>)

\* the fragment of one message
MessageHtml(msg) ==
    <<"\n        <div class=\"flex flex-col space-y-2 mb-4\">\n            <div class=\"self-end bg-indigo-100 text-indigo-900 p-3 rounded-2xl rounded-tr-none max-w-[85%] text-sm shadow-sm border border-indigo-200\">\n                ">>
    \o msg.user_query
    \o <<"\n            </div>\n            <div class=\"self-start bg-white border border-gray-200 text-gray-800 p-3 rounded-2xl rounded-tl-none max-w-[90%] text-sm shadow-md\">\n                <strong class=\"text-indigo-600 block text-xs mb-1 font-bold\">Aarogya AI</strong>\n                <div class=\"prose prose-sm text-gray-700 leading-relaxed\">">>
    \o msg.ai_response
    \o <<"</div>\n            </div>\n        </div>\n        ">>

\* html_content of get_chat_history
RECURSIVE HistoryHtml(_)
HistoryHtml(history_list) ==
    IF history_list = <<>> THEN <<>>
    ELSE MessageHtml(history_list[1]) \o HistoryHtml(Tail(history_list))

\* GET /chat/history
GetChatHistory(current_user) ==
    /\ \E cursor \in FindSorted(chat_messages, current_user.email) :
          LET history_list == ToList(cursor, HistoryLimit)
          IN  last' = [op |-> "history", user |-> current_user,
                       history_list |-> history_list,
                       response |-> IF history_list = <<>> THEN NoHistoryHtml
                                    ELSE HTMLResponse(HistoryHtml(history_list))]
    /\ UNCHANGED <<reports, tasks, vstore, chat_messages, clock, boot_time, calls, conn,
                   appointments, flight>>

\* time passes
Tick ==
    /\ clock < MaxClock
    /\ clock' = clock + 1
    /\ last' = [op |-> "tick"]
    /\ UNCHANGED <<reports, tasks, vstore, chat_messages, boot_time, calls, conn, appointments,
                   flight>>

\* The server process is started again: the modules are imported anew, at a
\* later time; the background tasks not yet run and every handler that waits
\* for the database are gone with the old process, so none of them resumes.
\* A write that reached the database before the process stopped is the step
\* of that write followed by this one.
Restart ==
    /\ clock < MaxClock
    /\ clock' = clock + 1
    /\ boot_time' = clock + 1
    /\ tasks' = {}
    /\ chatting' = <<>>
    /\ saving' = <<>>
    /\ reading' = <<>>
    /\ creating' = <<>>
    /\ last' = [op |-> "restart"]
    /\ UNCHANGED <<reports, vstore, chat_messages, calls, connection_requests, appointments>>

\* The chat endpoints over an empty vector store, with time passing.
NextHistory ==
    \/ /\ Len(chat_messages) + Len(chatting) < MaxTurns
       /\ \E u \in Users, q \in Queries, a \in ChatActions :
             ChatCall(u, q, a, FALSE, FALSE)
    \/ \E i \in 1..Len(chatting) : ChatInsert(i, FALSE)
    \/ \E u \in Users : GetChatHistory(u)
    \/ Tick
    \/ Restart

SpecHistory == Init /\ [][NextHistory]_vars

\* the number of exchanges the patient already has when the model starts
HistorySeed == 50

\* The chat collection after the patient asked HistorySeed questions over an
\* empty vector store, each in an earlier run of the server: the j-th message
\* carries the import time of its run.
SeededHistory ==
    LET patient == CHOOSE u \in Users : u.user_type = "patient"
        query == CHOOSE q \in Queries : TRUE
        asked(t) == chat_with_rag(<<>>, t, patient, query, "ask", <<>>,
                                  FALSE, FALSE, FALSE).inserted[1]
    IN  /\ reports = <<>>
        /\ tasks = {}
        /\ vstore = <<>>
        /\ chat_messages = [j \in 1..HistorySeed |->
                               [_id |-> ObjectIdStr(j)] @@ asked(j - HistorySeed - 1)]
        /\ clock = 0
        /\ boot_time = 0
        /\ calls = <<>>
        /\ connection_requests = <<>>
        /\ creating = <<>>
        /\ appointments = <<>>
        /\ chatting = <<>>
        /\ saving = <<>>
        /\ reading = <<>>

InitHistoryFull == SeededHistory /\ last = [op |-> "none"]

\* The chat endpoints over a chat collection that is about to pass the length
\* of to_list, with time passing.
NextHistoryFull ==
    \/ /\ Len(chat_messages) + Len(chatting) < HistorySeed + MaxTurns
       /\ \E u \in Users, q \in Queries, a \in ChatActions :
             ChatCall(u, q, a, FALSE, FALSE)
    \/ \E i \in 1..Len(chatting) : ChatInsert(i, FALSE)
    \/ \E u \in Users : GetChatHistory(u)
    \/ Tick
    \/ Restart

SpecHistoryFull == InitHistoryFull /\ [][NextHistoryFull]_vars

-----------------------------------------------------------------------------
(* index_report, get_rag_response and get_summary_response called directly. *)

ReportIds == {<<"r", "1">>, <<"r", "2">>}
Texts == {None, Some(<<>>), Some(ShortText), Some(LongText)}

\* a metadata map naming an owner
MetadataOf(report_id, owner_email) ==
    [report_id |-> report_id, owner_email |-> owner_email, title |-> "CBC",
     report_type |-> "Blood Test", upload_date |-> IsoFormat(0)]

\* await index_report(report_id, text_content, metadata)
IndexReport(report_id, text_content, metadata) ==
    /\ vstore' = index_report(vstore, report_id, text_content, metadata)
    /\ calls' = Append(calls, [report_id |-> report_id, text_content |-> text_content,
                               metadata |-> metadata])
    /\ last' = [op |-> "index", report_id |-> report_id,
                batch |-> IndexBatch(report_id, text_content, metadata),
                raised |-> FALSE]
    /\ UNCHANGED <<reports, tasks, chat_messages, clock, boot_time, conn, appointments,
                   flight>>

\* await get_rag_response(query, user_email)
RagResponse(query, user_email) ==
    /\ \E hits \in Query(vstore, RagK, user_email) :
          last' = [op |-> "retrieval", function |-> "get_rag_response",
                   user_email |-> user_email,
                   call |-> get_rag_response(vstore, query, user_email, hits, FALSE, FALSE)]
    /\ UNCHANGED <<reports, tasks, vstore, chat_messages, clock, boot_time, calls, conn,
                   appointments, flight>>

\* await get_summary_response(user_email)
SummaryResponse(user_email) ==
    /\ \E hits \in Query(vstore, SummaryK, user_email) :
          last' = [op |-> "retrieval", function |-> "get_summary_response",
                   user_email |-> user_email,
                   call |-> get_summary_response(vstore, user_email, hits, FALSE, FALSE)]
    /\ UNCHANGED <<reports, tasks, vstore, chat_messages, clock, boot_time, calls, conn,
                   appointments, flight>>

NextIndex ==
    \/ /\ Len(calls) < MaxCalls
       /\ \E r \in ReportIds, t \in Texts, u \in Users :
             IndexReport(r, t, MetadataOf(r, u.email))
    \/ \E q \in Queries, u \in Users : RagResponse(q, u.email)
    \/ \E u \in Users : SummaryResponse(u.email)

SpecIndex == Init /\ [][NextIndex]_vars

-----------------------------------------------------------------------------
(* Retrieval over a vector store that holds more chunks of an owner than a
   query asks for. *)

\* the number of reports the patient has indexed, at most, when the model starts
ManyReports == 11

\* A get_rag_response that asks the engine for as many results as the summary.
RagRequestTen(query, user_email) ==
    [query_texts |-> <<query>>, n_results |-> SummaryK,
     where |-> [owner_email |-> user_email]]

\* the arguments of collection.query in get_rag_response
RagRequest(query, user_email) ==
    [query_texts |-> <<query>>, n_results |-> RagK,
     where |-> [owner_email |-> user_email]]

\* the arguments of collection.query in get_summary_response
SummaryRequest(user_email) ==
    [query_texts |-> <<SummaryQuery>>, n_results |-> SummaryK,
     where |-> [owner_email |-> user_email]]

\* the documents of the chunks that match the filter, each with the number
\* of matching chunks that hold it
MatchingDocuments(store, user_email) ==
    LET m == Matching(store, user_email)
    IN  [d \in {store[id].document : id \in m} |->
            Cardinality({id \in m : store[id].document = d})]

\* the sequences of n documents that take every document at most as often as
\* the bag holds it
RECURSIVE DocumentRankings(_, _)
DocumentRankings(bag, n) ==
    IF n = 0 THEN {<<>>}
    ELSE UNION {{<<d>> \o r : r \in DocumentRankings([bag EXCEPT ![d] = @ - 1], n - 1)} :
                   d \in {e \in DOMAIN bag : bag[e] > 0}}

\* results['documents'][0] of collection.query(**request): the documents of
\* every ranking in Query(store, n_results, owner_email), best match first.
\* Two rankings that differ only in which of several chunks of equal text
\* they name give the same documents.
QueryDocuments(store, request) ==
    LET bag == MatchingDocuments(store, request.where.owner_email)
        matching == Cardinality(Matching(store, request.where.owner_email))
    IN  DocumentRankings(bag, Min(request.n_results, matching))

\* a ranking over the chunks m whose documents are docs
RECURSIVE RankingOf(_, _, _)
RankingOf(store, m, docs) ==
    IF docs = <<>> THEN <<>>
    ELSE LET id == CHOOSE x \in m : store[x].document = docs[1]
         IN  <<id>> \o RankingOf(store, m \ {id}, Tail(docs))

\* An outcome as the two functions see it: they read results['documents']
\* and never results['ids'].
WithoutIds(call) == [f \in (DOMAIN call) \ {"hits"} |-> call[f]]

\* the description of the j-th report of the seed, a text of one chunk: the
\* patient's reports carry one of two texts in turn, the doctor's a third
SeedText(j, n) == IF j <= n THEN <<"t">> \o IntStr(j % 2) ELSE <<"u">>

\* the j-th report of the seed: the first n are the patient's, the next is
\* the doctor's
SeedReport(j, n) ==
    LET owner == CHOOSE u \in Users :
                     u.user_type = (IF j <= n THEN "patient" ELSE "doctor")
    IN  ReportDict(owner, Some(SeedText(j, n)), 0, j)

\* the vector store once the first j reports of the seed are indexed
RECURSIVE SeedStore(_, _)
SeedStore(j, n) ==
    IF j = 0 THEN <<>>
    ELSE LET report_dict == SeedReport(j, n)
         IN  index_report(SeedStore(j - 1, n), report_dict.id,
                          report_dict.description, ReportMetadata(report_dict))

\* The state once the patient has created n reports and the doctor one, and
\* their indexing tasks have run.
SeededMany(n) ==
    /\ reports = [j \in 1..(n + 1) |-> SeedReport(j, n)]
    /\ tasks = {}
    /\ vstore = SeedStore(n + 1, n)
    /\ chat_messages = <<>>
    /\ clock = 0
    /\ boot_time = 0
    /\ calls = <<>>
    /\ connection_requests = <<>>
    /\ creating = <<>>
    /\ appointments = <<>>
    /\ chatting = <<>>
    /\ saving = <<>>
    /\ reading = <<>>

InitMany == (\E n \in 0..ManyReports : SeededMany(n)) /\ last = [op |-> "none"]

\* await get_rag_response(query, user_email), with the request it sends and
\* the documents the engine answers
AskMany(query, user_email) ==
    /\ LET request == RagRequest(query, user_email)
       IN  \E documents \in QueryDocuments(vstore, request) :
              LET hits == RankingOf(vstore, Matching(vstore, user_email), documents)
              IN  last' = [op |-> "retrieval", function |-> "get_rag_response",
                           user_email |-> user_email, query |-> query,
                           request |-> request, documents |-> documents,
                           call |-> WithoutIds(get_rag_response(vstore, query, user_email,
                                                                hits, FALSE, FALSE))]
    /\ UNCHANGED <<reports, tasks, vstore, chat_messages, clock, boot_time, calls, conn,
                   appointments, flight>>

\* await get_summary_response(user_email), with the request it sends and the
\* documents the engine answers
SummarizeMany(user_email) ==
    /\ LET request == SummaryRequest(user_email)
       IN  \E documents \in QueryDocuments(vstore, request) :
              LET hits == RankingOf(vstore, Matching(vstore, user_email), documents)
              IN  last' = [op |-> "retrieval", function |-> "get_summary_response",
                           user_email |-> user_email, query |-> <<>>,
                           request |-> request, documents |-> documents,
                           call |-> WithoutIds(get_summary_response(vstore, user_email,
                                                                    hits, FALSE, FALSE))]
    /\ UNCHANGED <<reports, tasks, vstore, chat_messages, clock, boot_time, calls, conn,
                   appointments, flight>>

NextMany ==
    \/ \E q \in Queries, u \in Users : AskMany(q, u.email)
    \/ \E u \in Users : SummarizeMany(u.email)

SpecMany == InitMany /\ [][NextMany]_vars

-----------------------------------------------------------------------------
(* routes/connection_routes.py and routes/doctor_routes.py: connection
   requests, and the reports of a connected patient. *)

MaxRequests == 2    \* connection requests inserted in one behaviour
MaxCreating == 2    \* create_connection_request calls in flight at once

\* the users of the connection routes: the patient, and two doctors
ConnUsers == Users \cup {[email |-> "e@x.com", user_type |-> "doctor"]}
Emails == {u.email : u \in ConnUsers}

\* request_data: the request body as ConnectionRequestInput validates it, the
\* doctor the patient asks for
ConnectionRequestInput(doctor_email) == [doctor_email |-> doctor_email]

\* the response of a route: a status code with a detail, or with a body
HTTPException(status_code, detail) == [status_code |-> status_code, detail |-> detail]
Answer(status_code, body) == [status_code |-> status_code, body |-> body]

\* A lookup that does not see accepted requests.
ExistingPendingOnly(collection, patient_email, doctor_email) ==
    {i \in 1..Len(collection) :
        /\ collection[i].patient_email = patient_email
        /\ collection[i].doctor_email = doctor_email
        /\ collection[i].status = "pending"}

\* the documents find_one of create_connection_request may return: those of
\* the pair whose status is pending or accepted
Existing(collection, patient_email, doctor_email) ==
    {i \in 1..Len(collection) :
        /\ collection[i].patient_email = patient_email
        /\ collection[i].doctor_email = doctor_email
        /\ collection[i].status \in {"pending", "accepted"}}

\* request_dict of create_connection_request
RequestDict(current_user, request_data) ==
    [doctor_email |-> request_data.doctor_email,
     patient_email |-> current_user.email, status |-> "pending"]

\* a document read from a collection once the handler has set
\* doc['id'] = str(doc['_id'])
WithId(doc) == [id |-> doc._id] @@ doc

\* ConnectionRequest(**d): the fields of the response model; request_date is
\* the default of the field, the value of datetime.now() when the class body
\* ran, and any other key of d is left out
ConnectionRequest(d, import_time) ==
    [patient_email |-> d.patient_email, doctor_email |-> d.doctor_email,
     status |-> d.status, request_date |-> import_time, id |-> d.id]

\* POST /connections up to the answer of find_one: the call is rejected, or
\* it found no request of the pair and goes on to insert
CreateRequestCheck(current_user, doctor_email) ==
    /\ LET request_data == ConnectionRequestInput(doctor_email)
           request_dict == RequestDict(current_user, request_data)
           existing == Existing(connection_requests, request_dict.patient_email,
                                request_data.doctor_email)
       IN  IF current_user.user_type # "patient"
           THEN /\ last' = [op |-> "create_connection", user |-> current_user,
                            response |-> HTTPException(403,
                                "Only patients can send connection requests.")]
                /\ UNCHANGED creating
           ELSE IF existing # {}
           THEN /\ \E i \in existing :
                      last' = [op |-> "create_connection", user |-> current_user,
                               response |-> HTTPException(400,
                                   IF connection_requests[i].status = "accepted"
                                   THEN "You are already connected to this doctor."
                                   ELSE "A pending request already exists for this doctor.")]
                /\ UNCHANGED creating
           ELSE /\ Len(creating) < MaxCreating
                /\ Len(connection_requests) + Len(creating) < MaxRequests
                /\ creating' = Append(creating, request_dict)
                /\ last' = [op |-> "create_connection", user |-> current_user,
                            response |-> Answer(0, request_dict)]
    /\ UNCHANGED <<reports, tasks, vstore, chat_messages, clock, boot_time, calls,
                   connection_requests, appointments, flight>>

\* POST /connections from insert_one on, for the i-th call in flight
CreateRequestInsert(i) ==
    /\ i \in 1..Len(creating)
    /\ LET request_dict == creating[i]
           id == ObjectIdStr(Len(connection_requests) + 1)
       IN  /\ connection_requests' =
                 Append(connection_requests, [_id |-> id] @@ request_dict)
           /\ last' = [op |-> "create_connection",
                       user |-> [email |-> request_dict.patient_email,
                                 user_type |-> "patient"],
                       response |-> Answer(201,
                           ConnectionRequest([id |-> id] @@ request_dict, boot_time))]
    /\ creating' = [j \in 1..(Len(creating) - 1) |->
                       IF j < i THEN creating[j] ELSE creating[j + 1]]
    /\ UNCHANGED <<reports, tasks, vstore, chat_messages, clock, boot_time, calls, appointments,
                   flight>>

\* the request ids a caller may send: the ids insert_one has given or will
\* give, and a string that ObjectId() does not accept
RequestIds == {ObjectIdStr(n) : n \in 1..(MaxRequests + 1)} \cup {<<"x">>}

\* bson.ObjectId(request_id): raises on a string that is no object id
ObjectIdValid(request_id) == \E n \in 1..(MaxRequests + 1) : request_id = ObjectIdStr(n)

\* An accept that does not ask whose request it is.
AcceptMatchesAnyDoctor(collection, request_id, doctor_email) ==
    {i \in 1..Len(collection) :
        /\ collection[i]._id = request_id
        /\ collection[i].status = "pending"}

\* the documents find_one_and_update of accept_connection_request matches
AcceptMatches(collection, request_id, doctor_email) ==
    {i \in 1..Len(collection) :
        /\ collection[i]._id = request_id
        /\ collection[i].doctor_email = doctor_email
        /\ collection[i].status = "pending"}

\* PUT /connections/{request_id}/accept. The except clause encloses both
\* ObjectId(request_id) and the awaited find_one_and_update: either one
\* raising is answered 400. An update that raises changes no document.
AcceptRequest(current_user, request_id, update_fails) ==
    /\ LET matches == AcceptMatches(connection_requests, request_id, current_user.email)
       IN  IF current_user.user_type # "doctor"
           THEN /\ last' = [op |-> "accept", user |-> current_user,
                            request_id |-> request_id, update_fails |-> update_fails,
                            response |-> HTTPException(403,
                                "Only doctors can accept requests.")]
                /\ UNCHANGED connection_requests
           ELSE IF ~ObjectIdValid(request_id) \/ update_fails
           THEN /\ last' = [op |-> "accept", user |-> current_user,
                            request_id |-> request_id, update_fails |-> update_fails,
                            response |-> HTTPException(400, "Invalid Request ID format.")]
                /\ UNCHANGED connection_requests
           ELSE IF matches = {}
           THEN /\ last' = [op |-> "accept", user |-> current_user,
                            request_id |-> request_id, update_fails |-> update_fails,
                            response |-> HTTPException(404,
                                "Pending request not found or not owned by doctor.")]
                /\ UNCHANGED connection_requests
           ELSE \E i \in matches :
                   /\ connection_requests' =
                         [connection_requests EXCEPT ![i].status = "accepted"]
                   /\ last' = [op |-> "accept", user |-> current_user,
                               request_id |-> request_id, update_fails |-> update_fails,
                               response |-> Answer(200,
                                   ConnectionRequest(WithId(connection_requests'[i]),
                                                     boot_time))]
    /\ UNCHANGED <<reports, tasks, vstore, chat_messages, clock, boot_time, calls,
                   creating, appointments, flight>>

\* check_doctor_permission(current_user) raises
DoctorDenied(current_user) == current_user.user_type # "doctor"

\* A connection check that takes a pending request for a connection.
CheckAnyStatus(collection, doctor_email, patient_email) ==
    \E i \in 1..Len(collection) :
        /\ collection[i].doctor_email = doctor_email
        /\ collection[i].patient_email = patient_email

\* check_patient_connection(doctor_email, patient_email)
check_patient_connection(collection, doctor_email, patient_email) ==
    \E i \in 1..Len(collection) :
        /\ collection[i].doctor_email = doctor_email
        /\ collection[i].patient_email = patient_email
        /\ collection[i].status = "accepted"

\* length of to_list in get_patient_reports
ReportsLimit == 100

\* the arrangements of the documents S that are non-increasing in upload_date
RECURSIVE SortedByDateDesc(_)
SortedByDateDesc(S) ==
    IF S = {} THEN {<<>>}
    ELSE UNION {{<<x>> \o r : r \in SortedByDateDesc(S \ {x})} :
                   x \in {y \in S : \A z \in S : y.upload_date >= z.upload_date}}

\* reports_collection.find({"owner_email": e}).sort("upload_date", -1)
FindReports(collection, owner_email) ==
    SortedByDateDesc({collection[i] : i \in {j \in 1..Len(collection) :
                                                collection[j].owner_email = owner_email}})

\* GET /doctor/patients/{patient_email}/reports up to the answer of find_one
\* in check_patient_connection: the call is answered 403, or the doctor is
\* connected and the call goes on to read the reports
GetPatientReportsCheck(current_user, patient_email) ==
    /\ LET denied(detail) ==
               /\ last' = [op |-> "patient_reports", user |-> current_user,
                           patient_email |-> patient_email, reports_list |-> <<>>,
                           response |-> HTTPException(403, detail)]
               /\ UNCHANGED reading
       IN  IF DoctorDenied(current_user)
           THEN denied("Access denied. Only doctors can access this resource.")
           ELSE IF ~check_patient_connection(connection_requests, current_user.email,
                                             patient_email)
           THEN denied("You are not authorized to view reports for this patient.")
           ELSE /\ Len(reading) < MaxInFlight
                /\ reading' = Append(reading, [user |-> current_user,
                                               patient_email |-> patient_email])
                /\ last' = [op |-> "patient_reports_check", user |-> current_user,
                            patient_email |-> patient_email]
    /\ UNCHANGED <<reports, tasks, vstore, chat_messages, clock, boot_time, calls, conn,
                   appointments, chatting, saving>>

\* GET /doctor/patients/{patient_email}/reports from the answer of
\* cursor.to_list on, for the i-th waiting call
GetPatientReportsRead(i) ==
    /\ i \in 1..Len(reading)
    /\ LET c == reading[i]
       IN  \E cursor \in FindReports(reports, c.patient_email) :
              LET reports_list == ToList(cursor, ReportsLimit)
              IN  last' = [op |-> "patient_reports", user |-> c.user,
                           patient_email |-> c.patient_email,
                           reports_list |-> reports_list,
                           response |-> Answer(200, reports_list)]
    /\ reading' = RemoveAt(reading, i)
    /\ UNCHANGED <<reports, tasks, vstore, chat_messages, clock, boot_time, calls, conn,
                   appointments, chatting, saving>>

\* the bodies of POST /reports without a description: nothing is indexed
PlainBodies == {[description |-> None, owner_email |-> {}]}

\* Patients ask doctors for a connection and doctors accept. A create call
\* may be overtaken between its find_one and its insert_one, the update of
\* an accept may raise, and the server may be started again while calls wait.
NextConn ==
    \/ \E u \in ConnUsers, d \in Emails : CreateRequestCheck(u, d)
    \/ \E i \in 1..Len(creating) : CreateRequestInsert(i)
    \/ \E u \in ConnUsers, r \in RequestIds, uf \in BOOLEAN : AcceptRequest(u, r, uf)
    \/ Restart

SpecConn == Init /\ [][NextConn]_vars

\* The state once the patient has asked each doctor for a connection.
SeededRequests ==
    LET patient == CHOOSE u \in ConnUsers : u.user_type = "patient"
        asked(doctor_email) == RequestDict(patient, ConnectionRequestInput(doctor_email))
    IN  /\ reports = <<>>
        /\ tasks = {}
        /\ vstore = <<>>
        /\ chat_messages = <<>>
        /\ clock = 0
        /\ boot_time = 0
        /\ calls = <<>>
        /\ connection_requests = <<[_id |-> ObjectIdStr(1)] @@ asked("d@x.com"),
                                   [_id |-> ObjectIdStr(2)] @@ asked("e@x.com")>>
        /\ creating = <<>>
        /\ appointments = <<>>
        /\ chatting = <<>>
        /\ saving = <<>>
        /\ reading = <<>>

InitDoctor == SeededRequests /\ last = [op |-> "none"]

\* Doctors accept the requests sent to them, with an update that may raise,
\* and read the reports of patients, while users create reports.
NextDoctor ==
    \/ \E u \in ConnUsers, r \in RequestIds, uf \in BOOLEAN : AcceptRequest(u, r, uf)
    \/ /\ Len(reports) < MaxReports
       /\ \E u \in Users, b \in PlainBodies : CreateReportInsert(u, b, FALSE)
    \/ \E i \in 1..Len(saving) : CreateReportSchedule(i)
    \/ \E u \in ConnUsers, p \in Emails : GetPatientReportsCheck(u, p)
    \/ \E i \in 1..Len(reading) : GetPatientReportsRead(i)

SpecDoctor == InitDoctor /\ [][NextDoctor]_vars

-----------------------------------------------------------------------------
(* routes/appointment_routes.py: appointments scheduled, updated and listed. *)

MaxAppts == 2       \* appointments inserted in one behaviour

\* the users of the appointment routes: the patient, two doctors and an
\* administrator
ApptUsers == ConnUsers \cup {[email |-> "r@x.com", user_type |-> "admin"]}

AsciiUpper ==
    <<"A", "B", "C", "D", "E", "F", "G", "H", "I", "J", "K", "L", "M",
      "N", "O", "P", "Q", "R", "S", "T", "U", "V", "W", "X", "Y", "Z">>
AsciiLower ==
    <<"a", "b", "c", "d", "e", "f", "g", "h", "i", "j", "k", "l", "m",
      "n", "o", "p", "q", "r", "s", "t", "u", "v", "w", "x", "y", "z">>

\* str.lower()
StrLower(s) ==
    [i \in 1..Len(s) |->
        IF \E k \in 1..Len(AsciiUpper) : AsciiUpper[k] = s[i]
        THEN AsciiLower[CHOOSE k \in 1..Len(AsciiUpper) : AsciiUpper[k] = s[i]]
        ELSE s[i]]

StatusScheduled == <<"s", "c", "h", "e", "d", "u", "l", "e", "d">>
StatusCompleted == <<"c", "o", "m", "p", "l", "e", "t", "e", "d">>
StatusCancelled == <<"c", "a", "n", "c", "e", "l", "l", "e", "d">>

\* allowed_statuses of update_appointment
allowed_statuses == {StatusScheduled, StatusCompleted, StatusCancelled}

\* a status as a caller may write it, and a word that is no status
Completed_Mixed == <<"C", "o", "m", "p", "l", "e", "t", "e", "d">>
NoStatus == <<"d", "o", "n", "e">>

\* the JSON bodies of POST /appointments: AppointmentCreate has the fields of
\* AppointmentBase, patient_email and status among them
AppointmentBodies ==
    {[title |-> "Checkup", appointment_time |-> t, status |-> StatusCompleted,
      patient_email |-> "d@x.com", doctor_email |-> d] :
        t \in 1..2, d \in {u.email : u \in {v \in ApptUsers : v.user_type = "doctor"}}}

\* appointment_dict of schedule_appointment
AppointmentDict(current_user, appointment_data) ==
    [title |-> appointment_data.title,
     appointment_time |-> appointment_data.appointment_time,
     doctor_email |-> appointment_data.doctor_email,
     patient_email |-> current_user.email,
     status |-> StatusScheduled,
     meeting_link |-> None]

\* Appointment(**d): the fields of the response model, any other key of d is
\* left out
Appointment(d) ==
    [title |-> d.title, appointment_time |-> d.appointment_time, status |-> d.status,
     patient_email |-> d.patient_email, doctor_email |-> d.doctor_email, id |-> d.id]

\* POST /appointments
ScheduleAppointment(current_user, appointment_data, insert_fails) ==
    /\ IF current_user.user_type # "patient"
       THEN /\ last' = [op |-> "schedule", user |-> current_user,
                        response |-> HTTPException(403,
                            "Only patients can initiate appointment scheduling.")]
            /\ UNCHANGED appointments
       ELSE IF insert_fails
       THEN /\ last' = [op |-> "schedule", user |-> current_user,
                        response |-> HTTPException(500, "Failed to schedule appointment.")]
            /\ UNCHANGED appointments
       ELSE LET appointment_dict == AppointmentDict(current_user, appointment_data)
                id == ObjectIdStr(Len(appointments) + 1)
            IN  /\ appointments' = Append(appointments, [_id |-> id] @@ appointment_dict)
                /\ last' = [op |-> "schedule", user |-> current_user,
                            response |-> Answer(201,
                                Appointment([id |-> id] @@ appointment_dict))]
    /\ UNCHANGED <<reports, tasks, vstore, chat_messages, clock, boot_time, calls, conn,
                   flight>>

\* the bodies of PUT /appointments/{id}: AppointmentUpdate
AppointmentUpdates ==
    {[status |-> None, meeting_link |-> None],
     [status |-> Some(Completed_Mixed), meeting_link |-> Some(<<"https://meet.example/1">>)],
     [status |-> Some(NoStatus), meeting_link |-> None]}

\* update_fields of update_appointment, for a status that is allowed
UpdateFields(update_data) ==
    [status |-> IF Truthy(update_data.status)
                THEN Some(StrLower(update_data.status.val)) ELSE None,
     meeting_link |-> update_data.meeting_link]

\* {"$set": update_fields} applied to a document
SetFields(doc, update_fields) ==
    [doc EXCEPT !.status = IF update_fields.status.some
                           THEN update_fields.status.val ELSE @,
                !.meeting_link = IF update_fields.meeting_link.some
                                 THEN update_fields.meeting_link ELSE @]

\* the appointment ids a caller may send: the ids insert_one has given or
\* will give, and a string that ObjectId() does not accept
AppointmentIds == {ObjectIdStr(n) : n \in 1..(MaxAppts + 1)} \cup {<<"x">>}

\* bson.ObjectId(appointment_id) does not raise
AppointmentIdValid(appointment_id) ==
    \E n \in 1..(MaxAppts + 1) : appointment_id = ObjectIdStr(n)

\* repr() of a list of strings
ListRepr(l) ==
    <<"[">> \o Join(<<",", " ">>, [i \in 1..Len(l) |-> <<"'">> \o l[i] \o <<"'">>])
    \o <<"]">>

\* f"Invalid status: Must be one of {list(allowed_statuses)}", for the order
\* in which the set yields its elements
InvalidStatusDetail(order) == <<"Invalid status: Must be one of ">> \o ListRepr(order)

\* PUT /appointments/{appointment_id}. The except clause encloses both
\* ObjectId(appointment_id) and the awaited find_one_and_update: either one
\* raising is answered 400. An update that raises changes no document.
UpdateAppointment(current_user, appointment_id, update_data, update_fails) ==
    /\ LET update_fields == UpdateFields(update_data)
           matches == {i \in 1..Len(appointments) :
                          /\ appointments[i]._id = appointment_id
                          /\ appointments[i].doctor_email = current_user.email}
           answer(response) ==
               /\ last' = [op |-> "update", user |-> current_user,
                           appointment_id |-> appointment_id,
                           update_fails |-> update_fails, response |-> response]
               /\ UNCHANGED appointments
       IN  IF current_user.user_type # "doctor"
           THEN answer(HTTPException(403,
                    "Access denied. Only the doctor can update appointment details."))
           ELSE IF Truthy(update_data.status)
                   /\ StrLower(update_data.status.val) \notin allowed_statuses
           \* the order of a set of strings is that of their hashes, which
           \* changes from one process to the next
           THEN \E order \in Arrangements(allowed_statuses, Cardinality(allowed_statuses)) :
                   answer(HTTPException(400, InvalidStatusDetail(order)))
           \* the HTTPException is returned, not raised: it is no Appointment,
           \* and the response validation fails
           ELSE IF ~update_fields.status.some /\ ~update_fields.meeting_link.some
           THEN answer(HTTPException(500, "Internal Server Error"))
           ELSE IF ~AppointmentIdValid(appointment_id) \/ update_fails
           THEN answer(HTTPException(400, "Invalid Appointment ID format."))
           ELSE IF matches = {}
           THEN answer(HTTPException(404, "Appointment not found or not owned by doctor."))
           ELSE \E i \in matches :
                   /\ appointments' =
                         [appointments EXCEPT ![i] = SetFields(@, update_fields)]
                   /\ last' = [op |-> "update", user |-> current_user,
                               appointment_id |-> appointment_id,
                               update_fails |-> update_fails,
                               response |-> Answer(200,
                                   Appointment(WithId(appointments'[i])))]
    /\ UNCHANGED <<reports, tasks, vstore, chat_messages, clock, boot_time, calls, conn,
                   flight>>

\* query_filter of list_user_appointments: whether a document matches it
QueryFilter(current_user, status_filter, doc) ==
    /\ current_user.user_type = "patient" => doc.patient_email = current_user.email
    /\ current_user.user_type = "doctor" => doc.doctor_email = current_user.email
    /\ Truthy(status_filter) => doc.status = StrLower(status_filter.val)

\* the arrangements of the documents S that are non-decreasing in
\* appointment_time
RECURSIVE SortedByTime(_)
SortedByTime(S) ==
    IF S = {} THEN {<<>>}
    ELSE UNION {{<<x>> \o r : r \in SortedByTime(S \ {x})} :
                   x \in {y \in S : \A z \in S : y.appointment_time <= z.appointment_time}}

\* length of to_list in list_user_appointments
AppointmentsLimit == 100

\* the status_filter values of GET /appointments
StatusFilters == {None, Some(Completed_Mixed)}

\* GET /appointments
ListUserAppointments(current_user, status_filter) ==
    /\ LET found == {appointments[i] : i \in {j \in 1..Len(appointments) :
                        QueryFilter(current_user, status_filter, appointments[j])}}
       IN  \E cursor \in SortedByTime(found) :
              LET appointments_list == ToList(cursor, AppointmentsLimit)
              IN  last' = [op |-> "list_appointments", user |-> current_user,
                           status_filter |-> status_filter,
                           appointments_list |-> appointments_list,
                           response |-> Answer(200,
                               [i \in 1..Len(appointments_list) |->
                                   Appointment(WithId(appointments_list[i]))])]
    /\ UNCHANGED <<reports, tasks, vstore, chat_messages, clock, boot_time, calls, conn,
                   appointments, flight>>

NextAppt ==
    \/ /\ Len(appointments) < MaxAppts
       /\ \E u \in ApptUsers, b \in AppointmentBodies, sf \in BOOLEAN :
             ScheduleAppointment(u, b, sf)
    \/ \E u \in ApptUsers, id \in AppointmentIds, b \in AppointmentUpdates,
          uf \in BOOLEAN :
          UpdateAppointment(u, id, b, uf)
    \/ \E u \in ApptUsers, f \in StatusFilters : ListUserAppointments(u, f)

SpecAppt == Init /\ [][NextAppt]_vars

-----------------------------------------------------------------------------
(* Properties of retrieval and of the chat endpoint. *)

\* the last step was a POST /chat that made a vector-store query which
\* answered, and now waits for its insert: the vector store is as the query
\* found it
Retrieved == last.op = "chat_call" /\ last.call.queries = 1 /\ ~last.query_fails

\* s occurs in t as a run of consecutive elements
Occurs(s, t) ==
    \E i \in 0..(Len(t) - Len(s)) : SubSeq(t, i + 1, i + Len(s)) = s

\* C1: whatever reports were created and indexed, every chunk whose text a
\* retrieval for a user takes into its context is a stored chunk whose
\* owner_email metadata is that user's email, in ask mode (k = 3) and in
\* summarize mode (k = 10).
C1_Isolation ==
    Retrieved =>
        /\ Len(last.call.docs) = Len(last.call.hits)
        /\ \A i \in 1..Len(last.call.hits) :
              /\ last.call.hits[i] \in DOMAIN vstore
              /\ vstore[last.call.hits[i]].metadata.owner_email = last.user.email
              /\ vstore[last.call.hits[i]].document = last.call.docs[i]
              /\ Occurs(last.call.docs[i], last.call.prompt)

\* a summary retrieval took chunks of the caller into its context while the
\* store also held chunks of another owner
C1_Witness ==
    /\ Retrieved
    /\ last.action = "summarize"
    /\ last.call.hits # <<>>
    /\ \E id \in DOMAIN vstore : vstore[id].metadata.owner_email # last.user.email

\* C4: a summarize request of a user who is not a patient is answered with
\* the rejection and has queried nothing, generated nothing and stored no
\* chat message.
C4_SummaryGate ==
    (last.op \in {"chat", "chat_call"} /\ last.action = "summarize"
     /\ last.user.user_type # "patient") =>
        /\ last.op = "chat"
        /\ last.response = OnlyPatientsHtml
        /\ last.call.queries = 0
        /\ last.call.gens = 0
        /\ last.inserted = <<>>

\* a doctor asked for a summary while chunks of that doctor were indexed
C4_Witness ==
    /\ last.op = "chat" /\ last.action = "summarize" /\ last.user.user_type = "doctor"
    /\ Matching(vstore, last.user.email) # {}

\* the generate call of the last chat request was made and raised
GenerateFailed ==
    last.op \in {"chat", "chat_call"} /\ last.call.gens >= 1 /\ last.generate_fails

\* C5: when the generate call raises, the function returns its fixed apology
\* string as a value, nothing is raised to the caller, and generate was called
\* once.
C5_GenerateFallback ==
    GenerateFailed =>
        /\ ~last.call.raised
        /\ last.call.text = IF last.action = "ask" THEN RagFallback ELSE SummaryFallback
        /\ last.call.gens = 1

\* the generate call raised in an ask request
C5_Witness == GenerateFailed /\ last.action = "ask" /\ last.call.prompt # <<>>

\* C6: every POST /chat ends with an HTML response and no exception leaves
\* the handler, whichever of the query, the generate call and the insert
\* raise.
C6_AlwaysHtml ==
    last.op = "chat" => ~last.raised /\ last.response.type = "HTMLResponse"

\* a request whose generate call and whose insert both raised
C6_Witness ==
    /\ last.op = "chat"
    /\ GenerateFailed /\ last.insert_fails
    /\ last.response = ErrorHtml

\* the prompt of the no-context branch, for a question
NoContextPrompt(query) ==
    RagGeneralInstruction \o <<"\n\n">> \o NoRecordsBlock
    \o <<"\n\nUser Question: ">> \o query

\* C7: in ask mode, when the retrieval answers no chunk, the prompt sent is
\* the general instruction, the "No specific medical records found." block
\* and the question, and what precedes the user's own words holds no text of
\* a stored chunk.
C7_NoContextBranch ==
    (Retrieved /\ last.action = "ask" /\ last.call.hits = <<>>) =>
        /\ last.call.gens = 1
        /\ last.call.prompt = NoContextPrompt(last.query)
        /\ \A id \in DOMAIN vstore :
              ~Occurs(vstore[id].document,
                      SubSeq(last.call.prompt, 1, Len(last.call.prompt) - Len(last.query)))

\* an ask request found nothing for its user while another owner's chunks
\* were stored
C7_Witness ==
    /\ Retrieved /\ last.action = "ask" /\ last.call.hits = <<>>
    /\ DOMAIN vstore # {}

\* the last step was a summary request of a user with no indexed chunk,
\* in the state its vector-store query was made in
SummaryOfNothing ==
    /\ last.op = "chat_call" /\ last.action = "summarize" /\ last.call.queries = 1
    /\ Matching(vstore, last.user.email) = {}

\* C8: a summary request of a user with no indexed chunk returns the fixed
\* "no reports yet" message and makes no generate call.
C8_NoReportsYet ==
    SummaryOfNothing =>
        /\ last.call.text = NoReportsYet
        /\ last.call.gens = 0

\* C8, amended: a summary request of a user with no indexed chunk makes no
\* generate call; it returns the fixed "no reports yet" message when the
\* vector-store query answers and the fixed summary apology when the query
\* raises.
C8_NoReportsYetUnlessQueryRaises ==
    SummaryOfNothing =>
        /\ last.call.gens = 0
        /\ ~last.call.raised
        /\ last.call.text = IF last.query_fails THEN SummaryFallback ELSE NoReportsYet

\* a patient without chunks, whose earlier summary request was answered "no
\* reports yet", asked again and the vector-store query raised, while
\* another owner's chunks were stored
C8_Witness ==
    /\ SummaryOfNothing
    /\ last.query_fails
    /\ last.call.text = SummaryFallback
    /\ DOMAIN vstore # {}
    /\ \E i \in 1..Len(chat_messages) :
          /\ chat_messages[i].owner_email = last.user.email
          /\ chat_messages[i].ai_response = NoReportsYet

\* the last POST /chat answered with the rendered exchange
Completed ==
    /\ last.op = "chat"
    /\ last.response.type = "HTMLResponse"
    /\ last.response # ErrorHtml
    /\ last.response # OnlyPatientsHtml

\* C9: a completed chat turn has stored exactly one chat message, the newest
\* of the collection, owned by the caller, with the question as asked (ask)
\* or the fixed label (summarize) as user_query, never the retrieval phrase,
\* and with the text the turn returned as ai_response.
C9_OneMessagePerTurn ==
    Completed =>
        /\ Len(last.inserted) = 1
        /\ chat_messages # <<>> /\ chat_messages[Len(chat_messages)] = last.inserted[1]
        /\ last.inserted[1].owner_email = last.user.email
        /\ last.action = "ask" => last.inserted[1].user_query = last.query
        /\ last.action = "summarize" =>
              /\ last.inserted[1].user_query = SummaryLabel
              /\ last.inserted[1].user_query # SummaryQuery
        /\ last.inserted[1].ai_response = last.call.text
        /\ last.response = ExchangeHtml(last.inserted[1].user_query, last.call.text)

\* a summary turn completed with generated text
C9_Witness ==
    /\ Completed /\ last.action = "summarize"
    /\ last.call.gens = 1 /\ last.call.text = LLMText

-----------------------------------------------------------------------------
(* Properties of index_report called again for a report. *)

\* the positions in calls of the calls for report_id that had a text to index
Effective(report_id) ==
    {k \in 1..Len(calls) :
        calls[k].report_id = report_id /\ Truthy(calls[k].text_content)}

\* the latest of a set of positions
Latest(K) == CHOOSE k \in K : \A other \in K : other <= k

\* the text of chunk i (from 0) of the call at position k, <<>> if it has none
ChunkOf(k, i) ==
    LET c == Chunks(calls[k].text_content.val)
    IN  IF i < Len(c) THEN c[i + 1] ELSE <<>>

\* the number of chunks of the call at position k
CountOf(k) == Len(Chunks(calls[k].text_content.val))

\* C3: once a report id has been indexed again, the store holds under
\* <id>_chunk_<i>, for every i below the chunk count of the latest text, chunk
\* i of the latest text with the latest metadata, and a retrieval that
\* returns such an id returns that chunk, not chunk i of an earlier text.
C3_ReindexOverwrites ==
    \A r \in ReportIds :
        Effective(r) # {} =>
            LET cur == Latest(Effective(r))
            IN  /\ \A i \in 0..(CountOf(cur) - 1) :
                      /\ ChunkId(r, i) \in DOMAIN vstore
                      /\ vstore[ChunkId(r, i)] =
                            [document |-> ChunkOf(cur, i),
                             metadata |-> calls[cur].metadata]
                /\ last.op = "retrieval" =>
                      \A p \in 1..Len(last.call.hits), i \in 0..(CountOf(cur) - 1) :
                          last.call.hits[p] = ChunkId(r, i) =>
                              /\ last.call.docs[p] = ChunkOf(cur, i)
                              /\ \A k \in Effective(r) :
                                    ChunkOf(k, i) # ChunkOf(cur, i) =>
                                        last.call.docs[p] # ChunkOf(k, i)

\* a report id was indexed with one text and owner, then with another text
\* and owner, and a retrieval returned its chunk 0
C3_Witness ==
    /\ last.op = "retrieval"
    /\ \E r \in ReportIds :
          /\ Cardinality(Effective(r)) >= 2
          /\ \E k \in Effective(r) :
                /\ k < Latest(Effective(r))
                /\ ChunkOf(k, 0) # ChunkOf(Latest(Effective(r)), 0)
                /\ calls[k].metadata # calls[Latest(Effective(r))].metadata
          /\ \E p \in 1..Len(last.call.hits) : last.call.hits[p] = ChunkId(r, 0)

\* the batch of the call at position k of calls
BatchOf(k) == IndexBatch(calls[k].report_id, calls[k].text_content, calls[k].metadata)

\* C13: for a non-empty text index_report makes exactly one upsert call; chunk
\* i (from 0) of the batch has the id <report_id>_chunk_<i>, the ids of the
\* batch are pairwise distinct, two calls for one report id give chunk i the
\* same id whatever their texts and metadata, and every chunk of the batch
\* carries the metadata map that was passed in.
C13_ChunkIdsAndMetadata ==
    /\ (last.op = "index" /\ calls # <<>> /\ Truthy(calls[Len(calls)].text_content)) =>
          LET call == calls[Len(calls)]
              n == Len(Chunks(call.text_content.val))
          IN  /\ last.batch.upserts = 1
              /\ Len(last.batch.ids) = n
              /\ Len(last.batch.documents) = n
              /\ Len(last.batch.metadatas) = n
              /\ \A i \in 0..(n - 1) :
                    /\ last.batch.ids[i + 1] =
                          call.report_id \o <<"_chunk_">> \o IntStr(i)
                    /\ last.batch.documents[i + 1] = Chunks(call.text_content.val)[i + 1]
                    /\ last.batch.metadatas[i + 1] = call.metadata
              /\ \A i, j \in 1..n : i # j => last.batch.ids[i] # last.batch.ids[j]
    /\ \A k1, k2 \in 1..Len(calls) :
          calls[k1].report_id = calls[k2].report_id =>
              \A i \in 1..Min(Len(BatchOf(k1).ids), Len(BatchOf(k2).ids)) :
                  BatchOf(k1).ids[i] = BatchOf(k2).ids[i]

\* a report id was indexed with a text of two chunks after it had been
\* indexed with another text under another owner
C13_Witness ==
    /\ last.op = "index"
    /\ Len(calls) = 2
    /\ calls[1].report_id = calls[2].report_id
    /\ Truthy(calls[1].text_content)
    /\ calls[1].text_content # calls[2].text_content
    /\ calls[1].metadata # calls[2].metadata
    /\ Len(last.batch.ids) = 2
    /\ last.batch.ids[2] \in DOMAIN vstore

\* the positions of the calls for report_id whose text had a chunk i (from 0)
WithChunk(report_id, i) == {k \in Effective(report_id) : CountOf(k) > i}

\* C14: when a report id is indexed again with a text of fewer chunks, the
\* chunks of the earlier text at the indices the new text does not reach stay
\* in the vector store as they were, text and metadata, and a retrieval of
\* their owner can return them.
C14_ShrinkLeavesOrphans ==
    \A r \in ReportIds :
        Effective(r) # {} =>
            LET cur == Latest(Effective(r))
            IN  \A k \in Effective(r) : \A i \in 0..(CountOf(k) - 1) :
                    i >= CountOf(cur) =>
                        LET old == Latest(WithChunk(r, i))
                            owner == calls[old].metadata.owner_email
                        IN  /\ ChunkId(r, i) \in DOMAIN vstore
                            /\ vstore[ChunkId(r, i)] =
                                  [document |-> ChunkOf(old, i),
                                   metadata |-> calls[old].metadata]
                            /\ \E hits \in Query(vstore, RagK, owner) :
                                  \E p \in 1..Len(hits) : hits[p] = ChunkId(r, i)

\* a report was indexed with a text of two chunks, then with a text of one
\* chunk under another owner, and a retrieval of the first owner returned the
\* second chunk of the first text
C14_Witness ==
    /\ last.op = "retrieval"
    /\ \E r \in ReportIds :
          /\ Cardinality(Effective(r)) = 2
          /\ LET cur == Latest(Effective(r))
                 old == CHOOSE k \in Effective(r) : k # cur
             IN  /\ CountOf(old) = 2
                 /\ CountOf(cur) = 1
                 /\ calls[old].metadata.owner_email # calls[cur].metadata.owner_email
                 /\ last.user_email = calls[old].metadata.owner_email
                 /\ \E p \in 1..Len(last.call.hits) :
                       /\ last.call.hits[p] = ChunkId(r, 1)
                       /\ last.call.docs[p] = ChunkOf(old, 1)

\* C17: index_report called with an absent or empty text makes no upsert
\* call, raises no error and leaves the vector store as it was.
C17_EmptyTextNoOp ==
    [][(calls' # calls /\ ~Truthy(calls'[Len(calls')].text_content)) =>
          /\ vstore' = vstore
          /\ last'.op = "index"
          /\ last'.batch.upserts = 0
          /\ last'.batch.ids = <<>>
          /\ ~last'.raised]_vars

\* index_report was called without a text on a vector store that holds the
\* chunks of an earlier call
C17_Witness ==
    /\ last.op = "index"
    /\ Len(calls) = 2
    /\ Truthy(calls[1].text_content)
    /\ ~Truthy(calls[2].text_content)
    /\ last.batch.upserts = 0
    /\ vstore # <<>>

-----------------------------------------------------------------------------
(* Properties of the chat history. *)

\* the position in db.chat_messages of a document: the order of the turns
TurnOf(doc) == CHOOSE k \in 1..Len(chat_messages) : chat_messages[k]._id = doc._id

\* C10: GET /chat/history lists the caller's exchanges in the order of the
\* turns: of two listed messages, the one of the earlier turn comes first.
C10_HistoryInTurnOrder ==
    last.op = "history" =>
        \A i, j \in 1..Len(last.history_list) :
            i < j => TurnOf(last.history_list[i]) < TurnOf(last.history_list[j])

\* the messages of the chat collection owned by owner_email
OwnedMessages(owner_email) ==
    {j \in 1..Len(chat_messages) : chat_messages[j].owner_email = owner_email}

\* C11: after any chat turns of any users, GET /chat/history for a user
\* returns only stored ChatMessages whose owner_email is that user's email, and
\* at most 50 of them.
C11_HistoryOwnCapped ==
    last.op = "history" =>
        /\ Len(last.history_list) <= HistoryLimit
        /\ \A i \in 1..Len(last.history_list) :
              /\ last.history_list[i].owner_email = last.user.email
              /\ \E j \in 1..Len(chat_messages) : chat_messages[j] = last.history_list[i]

\* a history of exactly 50 messages was returned to a user who owns more,
\* while another user has messages too
C11_Witness ==
    /\ last.op = "history"
    /\ Len(last.history_list) = HistoryLimit
    /\ Cardinality(OwnedMessages(last.user.email)) > HistoryLimit
    /\ \E j \in 1..Len(chat_messages) : chat_messages[j].owner_email # last.user.email

\* the chunks of the vector store whose metadata name the report
ChunksOfReport(report_id) ==
    {id \in DOMAIN vstore : vstore[id].metadata.report_id = report_id}

\* C12: create_report schedules the indexing exactly when the insert of the
\* report succeeded and the description is present and non-empty; a scheduled
\* task names a report that is already stored, and when the response is
\* returned the task is still waiting: no chunk of the report is in the
\* vector store yet.
C12_ScheduleAfterInsert ==
    last.op = "create_report" =>
        /\ (last.scheduled # {}) <=> (~last.insert_fails /\ Truthy(last.description))
        /\ last.insert_fails => last.status_code = 500
        /\ \A t \in last.scheduled :
              /\ \E i \in 1..Len(reports) :
                    /\ reports[i].id = t.report_id
                    /\ reports[i].description = t.text_content
              /\ t \in tasks
              /\ ChunksOfReport(t.report_id) = {}

\* a report with a description was created after an earlier report had been
\* indexed: the response is out, its indexing is scheduled and has not run
C12_Witness ==
    /\ last.op = "create_report"
    /\ last.status_code = 201
    /\ last.scheduled # {}
    /\ last.scheduled \subseteq tasks
    /\ vstore # <<>>

\* C15: however many chunks the owner has, a retrieval takes at most k chunk
\* texts into the context, in the order the engine ranked them: k = 3 for a
\* question, asked with the question itself as query text, and k = 10 for a
\* summary, asked with the fixed phrase.
C15_TopK ==
    (last.op = "retrieval" /\ "request" \in DOMAIN last) =>
        LET k == IF last.function = "get_rag_response" THEN 3 ELSE 10
            phrase == IF last.function = "get_rag_response" THEN last.query
                      ELSE <<"general health history diagnosis treatment lab results">>
        IN  /\ last.request.n_results = k
            /\ last.request.query_texts = <<phrase>>
            /\ last.request.where = [owner_email |-> last.user_email]
            /\ Len(last.call.docs) <= k
            /\ last.call.docs = last.documents
            /\ \A i \in 1..Len(last.call.docs) :
                  \E id \in Matching(vstore, last.user_email) :
                      vstore[id].document = last.call.docs[i]
            /\ last.call.docs # <<>> =>
                  Occurs(Join(<<"\n\n">>, last.call.docs), last.call.prompt)

\* a summary took ten chunk texts into its context for an owner who has more
\* than ten chunks
C15_Witness ==
    /\ last.op = "retrieval"
    /\ "request" \in DOMAIN last
    /\ last.function = "get_summary_response"
    /\ Cardinality(Matching(vstore, last.user_email)) > SummaryK
    /\ Len(last.call.docs) = SummaryK
    /\ last.call.gens = 1

\* C16: a POST /chat whose action is neither 'ask' nor 'summarize' is
\* rejected: it makes no vector-store query and no generate call, stores no
\* chat message, and is not answered with a rendered exchange.
C16_OtherActionRejected ==
    (last.op = "chat" /\ last.action \notin {"ask", "summarize"}) =>
        /\ last.call.queries = 0
        /\ last.call.gens = 0
        /\ last.inserted = <<>>
        /\ ~Completed

\* C18: every chunk of the vector store, and every indexing task still
\* waiting, names in its report_id metadata a report of the report store and
\* carries that report's owner_email; the owner_email of a report is the email
\* of the authenticated user who created it, whatever owner_email the request
\* body named.
C18_ChunkOwnerIsReportOwner ==
    /\ \A id \in DOMAIN vstore :
          \E i \in 1..Len(reports) :
              /\ reports[i].id = vstore[id].metadata.report_id
              /\ reports[i].owner_email = vstore[id].metadata.owner_email
    /\ \A t \in tasks :
          \E i \in 1..Len(reports) :
              /\ reports[i].id = t.metadata.report_id
              /\ reports[i].id = t.report_id
              /\ reports[i].owner_email = t.metadata.owner_email
    /\ (last.op = "create_report" /\ last.status_code = 201) =>
          /\ last.report.owner_email = last.user.email
          /\ \E i \in 1..Len(reports) : reports[i] = last.report
          /\ \A t \in last.scheduled : t.metadata.owner_email = last.user.email

\* the vector store holds the chunk of a report, and a user has just created
\* another report with a body that names someone else as owner
C18_Witness ==
    /\ last.op = "create_report"
    /\ last.status_code = 201
    /\ last.scheduled # {}
    /\ last.body.owner_email # {}
    /\ last.user.email \notin last.body.owner_email
    /\ vstore # <<>>

-----------------------------------------------------------------------------
(* Properties of the connection routes. *)

\* the requests of a pair that are pending or accepted
Live(patient_email, doctor_email) ==
    {i \in 1..Len(connection_requests) :
        /\ connection_requests[i].patient_email = patient_email
        /\ connection_requests[i].doctor_email = doctor_email
        /\ connection_requests[i].status \in {"pending", "accepted"}}

\* C19: for every pair of a patient and a doctor the store holds at most one
\* connection request whose status is pending or accepted, however the calls
\* of create_connection_request and accept_connection_request interleave.
C19_OneLiveRequestPerPair ==
    \A p \in ConnUsers, d \in ConnUsers :
        (p.user_type = "patient" /\ d.user_type = "doctor") =>
            Cardinality(Live(p.email, d.email)) <= 1

\* the store holds an accepted request of the patient to the doctor
Connected(patient_email, doctor_email) ==
    \E i \in 1..Len(connection_requests) :
        /\ connection_requests[i].patient_email = patient_email
        /\ connection_requests[i].doctor_email = doctor_email
        /\ connection_requests[i].status = "accepted"

\* the answer of the last get_patient_reports is as the connection allows
ReportsAsConnected ==
    last.op = "patient_reports" =>
        IF last.user.user_type = "doctor" /\ Connected(last.patient_email, last.user.email)
        THEN /\ last.response.status_code = 200
             /\ last.response.body = last.reports_list
             /\ \A i \in 1..Len(last.reports_list) :
                   /\ last.reports_list[i].owner_email = last.patient_email
                   /\ \E j \in 1..Len(reports) : reports[j] = last.reports_list[i]
        ELSE /\ last.response.status_code = 403
             /\ last.reports_list = <<>>

\* a request becomes accepted only by accept_connection_request answering
\* its doctor, from pending, and stays accepted
AcceptedByDoctor ==
    \A i \in 1..Len(connection_requests') :
        LET new == connection_requests'[i]
        IN  /\ (new.status = "accepted" /\
                   (i > Len(connection_requests) \/
                       connection_requests[i].status # "accepted")) =>
                  /\ i <= Len(connection_requests)
                  /\ connection_requests[i].status = "pending"
                  /\ connection_requests[i].patient_email = new.patient_email
                  /\ connection_requests[i].doctor_email = new.doctor_email
                  /\ last'.op = "accept"
                  /\ last'.response.status_code = 200
                  /\ last'.user.user_type = "doctor"
                  /\ last'.user.email = new.doctor_email
            /\ (i <= Len(connection_requests) /\
                   connection_requests[i].status = "accepted") =>
                  new = connection_requests[i]

\* C20: get_patient_reports returns reports, and then only reports of the
\* patient named, only to a caller of user_type 'doctor' for whom the store
\* holds an accepted connection request of that patient; a request is
\* accepted only by an earlier accept_connection_request of that doctor. In
\* every other case the answer is 403 and no report.
C20_ReportsOnlyWhenConnected ==
    /\ []ReportsAsConnected
    /\ [][AcceptedByDoctor]_vars

\* a doctor got the reports of a patient who is connected to them, while
\* the report store also holds a report of somebody else
C20_Witness ==
    /\ last.op = "patient_reports"
    /\ last.response.status_code = 200
    /\ last.reports_list # <<>>
    /\ \E j \in 1..Len(reports) : reports[j].owner_email # last.patient_email

\* in a step, a stored request changes only from pending to accepted, by
\* an accept_connection_request of a doctor whose email is its doctor_email,
\* and a request is inserted as pending
StatusOnlyByItsDoctor ==
    /\ Len(connection_requests') >= Len(connection_requests)
    /\ \A i \in 1..Len(connection_requests') :
          IF i > Len(connection_requests)
          THEN connection_requests'[i].status = "pending"
          ELSE connection_requests'[i] # connection_requests[i] =>
                  /\ connection_requests[i].status = "pending"
                  /\ connection_requests'[i] =
                        [connection_requests[i] EXCEPT !.status = "accepted"]
                  /\ last'.op = "accept"
                  /\ last'.request_id = connection_requests[i]._id
                  /\ last'.user.user_type = "doctor"
                  /\ last'.user.email = connection_requests[i].doctor_email

\* the call names a pending request of the calling doctor
MayAccept(current_user, request_id) ==
    /\ current_user.user_type = "doctor"
    /\ \E i \in 1..Len(connection_requests) :
          /\ connection_requests[i]._id = request_id
          /\ connection_requests[i].doctor_email = current_user.email
          /\ connection_requests[i].status = "pending"

\* C22: a connection request's status changes only from pending to accepted,
\* through accept_connection_request called by a doctor whose email is the
\* request's doctor_email; a call by anybody else, or for a request that is
\* not pending or does not exist, changes no connection request and is
\* answered 403 or 404.
C22_AcceptOnlyByDoctor ==
    [][/\ StatusOnlyByItsDoctor
       /\ (last'.op = "accept" /\ ~MayAccept(last'.user, last'.request_id)) =>
             /\ connection_requests' = connection_requests
             /\ last'.response.status_code \in {403, 404}]_vars

\* C22, amended: as above, and the answer to a call that may not accept is
\* 403 for a caller who is no doctor, 400 for a doctor whose request id is
\* no object id or whose database update raises, and 404 for a doctor
\* otherwise; a call that may accept and whose update does not raise is
\* answered 200 and turns that request to accepted; one whose update raises
\* is answered 400 and changes nothing.
C22_AcceptOnlyByDoctorCodes ==
    [][/\ StatusOnlyByItsDoctor
       /\ last'.op = "accept" =>
             IF MayAccept(last'.user, last'.request_id) /\ ~last'.update_fails
             THEN /\ last'.response.status_code = 200
                  /\ last'.response.body.id = last'.request_id
                  /\ last'.response.body.status = "accepted"
                  /\ \E i \in 1..Len(connection_requests) :
                        /\ connection_requests[i]._id = last'.request_id
                        /\ connection_requests'[i].status = "accepted"
             ELSE /\ connection_requests' = connection_requests
                  /\ last'.response.status_code =
                        IF last'.user.user_type # "doctor" THEN 403
                        ELSE IF ~ObjectIdValid(last'.request_id) \/ last'.update_fails
                             THEN 400
                        ELSE 404]_vars

\* a doctor has accepted a request sent to them, while a request sent to
\* another doctor is still pending
C22_Witness ==
    /\ last.op = "accept"
    /\ last.response.status_code = 200
    /\ \E i, j \in 1..Len(connection_requests) :
          /\ connection_requests[i]._id = last.request_id
          /\ connection_requests[i].status = "accepted"
          /\ connection_requests[i].doctor_email = last.user.email
          /\ connection_requests[j].status = "pending"
          /\ connection_requests[j].doctor_email # last.user.email

-----------------------------------------------------------------------------
(* Properties of the appointment routes. *)

\* C21: every appointment list_user_appointments returns has the caller's
\* email as patient_email or as doctor_email, whatever the user_type of the
\* caller.
C21_OwnAppointmentsOnly ==
    last.op = "list_appointments" =>
        \A i \in 1..Len(last.appointments_list) :
            \/ last.appointments_list[i].patient_email = last.user.email
            \/ last.appointments_list[i].doctor_email = last.user.email

-----------------------------------------------------------------------------
(* The chunker alone: a text is drawn, then chunked. *)

InitChunk ==
    /\ Quiet
    /\ \E n \in 0..MaxTextLen, letters \in {Lower, Upper} :
          last = [op |-> "text", text |-> MkText(n, letters)]

ChunkText ==
    /\ last.op = "text"
    /\ last' = [op |-> "chunks", text |-> last.text, chunks |-> Chunks(last.text)]
    /\ UNCHANGED <<reports, tasks, vstore, chat_messages, clock, boot_time, calls, conn,
                   appointments, flight>>

NextChunk == ChunkText

SpecChunk == InitChunk /\ [][NextChunk]_vars

\* ceil(n / d), as the least q with q * d >= n
Ceil(n, d) == CHOOSE q \in 0..n : q * d >= n /\ \A p \in 0..(q - 1) : p * d < n

\* C2: a text of N characters is cut into exactly ceil(N/500) chunks of at
\* most 500 characters each, in the original order, and the chunks put
\* together in order are the text again.
C2_ChunksCoverText ==
    last.op = "chunks" =>
        /\ Len(last.chunks) = Ceil(Len(last.text), chunk_size)
        /\ \A j \in 1..Len(last.chunks) : Len(last.chunks[j]) <= chunk_size
        /\ Concat(last.chunks) = last.text

\* a text of 1200 characters has been cut into chunks of 500, 500 and 200
C2_Witness ==
    /\ last.op = "chunks"
    /\ Len(last.text) = 1200
    /\ Len(last.chunks) = 3
    /\ Len(last.chunks[1]) = 500 /\ Len(last.chunks[2]) = 500 /\ Len(last.chunks[3]) = 200

====
